---- MODULE Spec2Model ----
(***************************************************************************)
(* Model of main.py of raspi-airquality: one-time registration of the      *)
(* custom metric descriptors, start-up of the BME680 sensor, and the       *)
(* publish loop (rainfall fetch, time-series construction, sensor read,    *)
(* merge of the sample, submission, sleep), together with the process      *)
(* environment and the SIGINT signal.                                      *)
(***************************************************************************)
EXTENDS Integers, Sequences, FiniteSets, TLC

VARIABLES
    pc,            \* position of main(): one value per blocking call
    error,         \* exception that left main() ("none" while none did)
    envProject,    \* os.environ GOOGLE_CLOUD_PROJECT: "unset", "empty", "set"
    envAppId,      \* os.environ YAHOO_APP_ID: "unset", "empty", "set"
    regIdx,        \* position of the for loop of create_sensor_metrics
    descCalls,     \* metric -> number of create_metric_descriptor calls made
    sensorAddr,    \* I2C address the BME680 object was constructed with
    hostname,      \* main()'s local variable hostname
    metric_dict,   \* the keys, in insertion order, of the dict metric_dict
                   \* that main() hands to create_sensor_metrics and
                   \* create_time_series
    osHostname,    \* what socket.gethostname() answers at this moment
    ts_hostname,   \* local hostname of the running create_time_series call
    rainfall,      \* local rainfall of the running create_time_series call
    resp,          \* response body fetch_rainfall is given, where the
                   \* specification fixes it beforehand (empty otherwise)
    series_dict,   \* main()'s series_dict: metric -> TimeSeries
    data,          \* main()'s dict data, "none" when no sample was read
    mergeIdx,      \* position of the for loop over data.items()
    clock,         \* wall clock, what time.time() answers at this moment
    submitted,     \* series list handed to client.create_time_series,
                   \* empty while none is
    cycle,         \* number of loop iterations started
    nHttp,         \* number of urlopen requests issued
    nFetch,        \* number of fetch_rainfall calls
    nRead,         \* number of sensor.get_sensor_data calls
    nPublish,      \* number of client.create_time_series calls
    last,          \* the last call made to a collaborator and its outcome
    sigAt,         \* position of main() when SIGINT arrived ("none" before)
    slept          \* seconds asked of time.sleep so far

vars == <<pc, error, envProject, envAppId, regIdx, descCalls, sensorAddr,
          hostname, metric_dict, osHostname, ts_hostname, rainfall, resp,
          series_dict, data, mergeIdx, clock, submitted, cycle, nHttp,
          nFetch, nRead, nPublish, last, sigAt, slept>>

----------------------------------------------------------------------------
(* Bounds of the model *)

MaxCycles == 2      \* loop iterations explored
MaxReading == 1     \* distinct sensor readings
MaxRain == 2        \* Rainfall 0..MaxRain, in 1/RainScale mm, in a response
RainScale == 2      \* Rainfall values counted per millimetre
MaxWeather == 2     \* entries of a WeatherList
MaxClock == 1       \* wall-clock instants 0..MaxClock, in clock ticks
Resolution == 2     \* clock ticks per second
MaxCatalog == 2     \* keys of a metric_dict smaller than the one of main()

----------------------------------------------------------------------------
(* Program constants *)

POLL_INTERVAL == 10
RESOURCE_NAMESPACE == "ymotongpoo"
RESOURCE_LOCATION == "asia-northeast1-a"
RESOURCE_TYPE == "generic_node"

\* The keys of the dict literal metric_dict of main(), in insertion order
\* (dict iteration order).
MetricTypes ==
    << "temperature", "pressure", "humidity", "gas_resistance",
       "gas_index", "meas_index", "heat_stable" >>

\* The keys of the dict data built from sensor.data, in insertion order.
data_fields ==
    << "temperature", "pressure", "humidity", "gas_resistance",
       "gas_index", "meas_index", "heat_stable" >>

Range(s) == {s[i] : i \in 1..Len(s)}

Metrics == Range(metric_dict)

custom_metric(metric_type) == <<"custom.googleapis.com/", metric_type>>

----------------------------------------------------------------------------
(* Process states of the publish loop, read off the position of main() *)

StartingPcs == {"register", "sensor_primary", "sensor_secondary",
                "init_sensor", "hostname"}
RunningPcs == {"fetch", "build", "read", "merge", "publish", "sleep"}

State ==
    IF pc \in StartingPcs THEN "STARTING"
    ELSE IF pc \in RunningPcs THEN "RUNNING"
    ELSE "STOPPED"

\* The record kept of a call to a collaborator.
Called(call, outcome) == last' = [call |-> call, outcome |-> outcome]

\* An exception that no handler of main() catches ends the process.
Raise(exc) ==
    /\ pc' = "stopped"
    /\ error' = exc

----------------------------------------------------------------------------
InitWith(keys) ==
    /\ pc = "register"
    /\ error = "none"
    /\ envProject \in {"unset", "empty", "set"}
    /\ envAppId \in {"unset", "empty", "set"}
    /\ metric_dict = keys
    /\ regIdx = 1
    /\ descCalls = [m \in Metrics |-> 0]
    /\ sensorAddr = "none"
    /\ hostname = "none"
    /\ osHostname = "raspi"
    /\ ts_hostname = "none"
    /\ rainfall = "none"
    /\ resp = << >>
    /\ series_dict = << >>
    /\ data = "none"
    /\ mergeIdx = 1
    /\ clock = 0
    /\ submitted = << >>
    /\ cycle = 0
    /\ nHttp = 0
    /\ nFetch = 0
    /\ nRead = 0
    /\ nPublish = 0
    /\ last = [call |-> "none", outcome |-> "none"]
    /\ sigAt = "none"
    /\ slept = 0

Init == InitWith(MetricTypes)

----------------------------------------------------------------------------
(* get_project_id: the outcome of reading GOOGLE_CLOUD_PROJECT.  A missing  *)
(* variable makes os.environ[...] raise KeyError; an empty one raises       *)
(* MissingProjectIdError.                                                   *)
get_project_id ==
    CASE envProject = "unset" -> "KeyError"
      [] envProject = "empty" -> "MissingProjectIdError"
      [] OTHER -> "ok"

----------------------------------------------------------------------------
(* STARTING: create_sensor_metrics, the BME680 constructor, init_sensor,   *)
(* socket.gethostname                                                      *)

\* A for loop that passed over every second item of metric_dict.
NextItemSkipping(i) == i + 2

\* The for loop of create_sensor_metrics moves to the next item of
\* metric_dict after a descriptor was created.
NextItem(i) == i + 1

\* A create_sensor_metrics that reported the rejected descriptor and went
\* on with the next item.
RegistrationSkipped(exc) ==
    /\ regIdx' = regIdx + 1
    /\ pc' = IF regIdx' > Len(metric_dict)
             THEN "sensor_primary" ELSE "register"
    /\ UNCHANGED error

\* What an exception raised by create_double_guage_metrics does to
\* create_sensor_metrics: nothing catches it, so it leaves main().
RegistrationFailed(exc) ==
    /\ Raise(exc)
    /\ UNCHANGED regIdx

\* One iteration of the for loop of create_sensor_metrics, which is one
\* call of create_double_guage_metrics(mtype, mdesc).
create_sensor_metrics ==
    /\ pc = "register"
    /\ regIdx <= Len(metric_dict)
    /\ LET mtype == metric_dict[regIdx] IN
       IF get_project_id # "ok"
       THEN /\ Called("get_project_id", get_project_id)
            /\ RegistrationFailed(get_project_id)
            /\ UNCHANGED descCalls
       ELSE /\ descCalls' = [descCalls EXCEPT ![mtype] = @ + 1]
            /\ \E accepted \in BOOLEAN :
                 IF accepted
                 THEN /\ Called("create_metric_descriptor", "ok")
                      /\ regIdx' = NextItem(regIdx)
                      /\ pc' = IF regIdx' > Len(metric_dict)
                               THEN "sensor_primary" ELSE "register"
                      /\ UNCHANGED error
                 ELSE /\ Called("create_metric_descriptor",
                                "GoogleAPICallError")
                      /\ RegistrationFailed("GoogleAPICallError")
    /\ UNCHANGED <<envProject, envAppId, sensorAddr, hostname, osHostname,
                   ts_hostname, rainfall, series_dict, data, mergeIdx, clock,
                   submitted, cycle, nHttp, nFetch, nRead, nPublish, slept,
                   sigAt, resp, metric_dict>>

\* An except clause that constructed the sensor at the primary address
\* again.
ExceptIOErrorRetrying == "sensor_primary"

\* Where except IOError leads after the constructor failed at the primary
\* address: to the constructor call with the secondary address.
ExceptIOError == "sensor_secondary"

\* sensor = bme680.BME680(bme680.I2C_ADDR_PRIMARY); an IOError is caught
\* and the secondary address is tried.
SensorPrimary ==
    /\ pc = "sensor_primary"
    /\ \E ok \in BOOLEAN :
         IF ok
         THEN /\ Called("BME680", "ok")
              /\ sensorAddr' = "primary"
              /\ pc' = "init_sensor"
         ELSE /\ Called("BME680", "IOError")
              /\ sensorAddr' = sensorAddr
              /\ pc' = ExceptIOError
    /\ UNCHANGED <<error, envProject, envAppId, regIdx, descCalls, hostname,
                   osHostname, ts_hostname, rainfall, series_dict, data,
                   mergeIdx, clock, submitted, cycle, nHttp, nFetch, nRead,
                   nPublish, slept, sigAt, resp, metric_dict>>

\* sensor = bme680.BME680(bme680.I2C_ADDR_SECONDARY) in the except clause;
\* an IOError here has no handler.
SensorSecondary ==
    /\ pc = "sensor_secondary"
    /\ \E ok \in BOOLEAN :
         IF ok
         THEN /\ Called("BME680", "ok")
              /\ sensorAddr' = "secondary"
              /\ pc' = "init_sensor"
              /\ UNCHANGED error
         ELSE /\ Called("BME680", "IOError")
              /\ sensorAddr' = sensorAddr
              /\ Raise("IOError")
    /\ UNCHANGED <<envProject, envAppId, regIdx, descCalls, hostname,
                   osHostname, ts_hostname, rainfall, series_dict, data,
                   mergeIdx, clock, submitted, cycle, nHttp, nFetch, nRead,
                   nPublish, slept, sigAt, resp, metric_dict>>

\* init_sensor(sensor): the configuration writes succeed or raise IOError.
init_sensor ==
    /\ pc = "init_sensor"
    /\ \E ok \in BOOLEAN :
         IF ok
         THEN /\ Called("init_sensor", "ok")
              /\ pc' = "hostname"
              /\ UNCHANGED error
         ELSE /\ Called("init_sensor", "IOError")
              /\ Raise("IOError")
    /\ UNCHANGED <<envProject, envAppId, regIdx, descCalls, sensorAddr,
                   hostname, osHostname, ts_hostname, rainfall, series_dict,
                   data, mergeIdx, clock, submitted, cycle, nHttp, nFetch,
                   nRead, nPublish, slept, sigAt, resp, metric_dict>>

\* hostname = socket.gethostname(), then the try block is entered and
\* series_dict = {} is executed.
ResolveHostname ==
    /\ pc = "hostname"
    /\ \E ok \in BOOLEAN :
         IF ok
         THEN /\ Called("gethostname", "ok")
              /\ hostname' = osHostname
              /\ series_dict' = << >>
              /\ pc' = "fetch"
              /\ UNCHANGED error
         ELSE /\ Called("gethostname", "OSError")
              /\ UNCHANGED <<hostname, series_dict>>
              /\ Raise("OSError")
    /\ UNCHANGED <<envProject, envAppId, regIdx, descCalls, sensorAddr,
                   osHostname, ts_hostname, rainfall, data, mergeIdx, clock,
                   submitted, cycle, nHttp, nFetch, nRead, nPublish, slept,
                   sigAt, resp, metric_dict>>

----------------------------------------------------------------------------
(* fetch_rainfall                                                          *)

WeatherTypes == {"observation", "forecast"}

\* obj['Feature'][i]['Property']['WeatherList']['Weather']: a list of
\* entries with the keys Type and Rainfall, the Rainfall a JSON number
\* counted here in 1/RainScale mm.
WeatherEntries == [Type : WeatherTypes, Rainfall : 0..MaxRain]

SeqsUpTo(S, n) == UNION {[1..k -> S] : k \in 0..n}

WeatherLists == SeqsUpTo(WeatherEntries, MaxWeather)

\* Well-formed response bodies: the list obj['Feature'], each entry
\* standing for its Weather list.
Responses == {<<w>> : w \in WeatherLists}

\* Well-formed response bodies of one or two Features.
FeatureLists ==
    Responses \cup
        {<<w, v>> : w \in WeatherLists, v \in SeqsUpTo(WeatherEntries, 1)}

\* Failures of urlopen, resp.read, json.loads and of the subscripts of obj.
FetchErrors == {"URLError", "HTTPError", "JSONDecodeError"}

\* The for loop over weathers: the Rainfall of the first entry, from
\* position i on, whose Type is 'observation'; -1 when the loop runs out.
\* int(x) of a non-negative number: its whole part.
int(x) == x \div RainScale

RECURSIVE ScanWeathers(_, _)
ScanWeathers(weathers, i) ==
    IF i > Len(weathers) THEN -1
    ELSE IF weathers[i].Type = "observation" THEN int(weathers[i].Rainfall)
    ELSE ScanWeathers(weathers, i + 1)

RECURSIVE Flatten(_)
Flatten(features) ==
    IF features = << >> THEN << >>
    ELSE Head(features) \o Flatten(Tail(features))

\* A fetch_rainfall that looked for the observation in every Feature.
fetch_rainfall_any_feature(obj) == ScanWeathers(Flatten(obj), 1)

\* The value fetch_rainfall returns for the parsed body obj.
fetch_rainfall(obj) == ScanWeathers(obj[1], 1)

\* The outcome of reading YAHOO_APP_ID at the head of fetch_rainfall.
get_app_id ==
    CASE envAppId = "unset" -> "KeyError"
      [] envAppId = "empty" -> "MissingAppIdError"
      [] OTHER -> "ok"

----------------------------------------------------------------------------
(* create_time_series                                                      *)

Digit(d) == CASE d = 0 -> "0" [] d = 1 -> "1" [] d = 2 -> "2" [] d = 3 -> "3"
              [] d = 4 -> "4" [] d = 5 -> "5" [] d = 6 -> "6" [] d = 7 -> "7"
              [] d = 8 -> "8" [] d = 9 -> "9"

RECURSIVE Digits(_)
Digits(n) == IF n < 10 THEN <<Digit(n)>>
             ELSE Digits(n \div 10) \o <<Digit(n % 10)>>

\* str(n) of an int: its decimal digits, with a leading "-" below zero.
str(n) == IF n < 0 THEN <<"-">> \o Digits(-n) ELSE Digits(n)

\* The TimeSeries built for one key of metric_dict; points starts empty.
TimeSeries(typ, rain, host) ==
    [ metric   |-> [type |-> custom_metric(typ),
                    labels |-> [rainfall |-> str(rain)]],
      resource |-> [type |-> RESOURCE_TYPE,
                    labels |-> [location  |-> RESOURCE_LOCATION,
                                namespace |-> RESOURCE_NAMESPACE,
                                node_id   |-> host]],
      points   |-> << >> ]

\* A loop that absorbed the failure of fetch_rainfall and went on with the
\* sentinel -1.
FetchAbsorbed(exc) ==
    /\ rainfall' = -1
    /\ pc' = "build"
    /\ UNCHANGED error

\* What an exception raised by fetch_rainfall does to the loop of main():
\* neither create_time_series nor main() catches it.
FetchFailed(exc) ==
    /\ Raise(exc)
    /\ UNCHANGED rainfall

\* The head of create_time_series: hostname = socket.gethostname() and
\* rainfall = fetch_rainfall(WEATHER_LONG, WEATHER_LAT), the provider
\* answering with one of bodies when the request succeeds.
FetchRainfallWith(bodies) ==
    /\ pc = "fetch"
    /\ cycle < MaxCycles
    /\ cycle' = cycle + 1
    /\ ts_hostname' = osHostname
    /\ nFetch' = nFetch + 1
    /\ IF get_app_id # "ok"
       THEN /\ Called("fetch_rainfall", get_app_id)
            /\ FetchFailed(get_app_id)
            /\ UNCHANGED nHttp
       ELSE /\ nHttp' = nHttp + 1
            /\ \/ \E exc \in FetchErrors :
                    /\ Called("fetch_rainfall", exc)
                    /\ FetchFailed(exc)
               \/ \E obj \in bodies :
                    /\ Called("fetch_rainfall", "ok")
                    /\ rainfall' = fetch_rainfall(obj)
                    /\ pc' = "build"
                    /\ UNCHANGED error
    /\ UNCHANGED <<envProject, envAppId, regIdx, descCalls, sensorAddr,
                   hostname, osHostname, series_dict, data, mergeIdx, clock,
                   submitted, nRead, nPublish, slept, sigAt, resp, metric_dict>>

FetchRainfall == FetchRainfallWith(Responses)

\* The same step when the body the provider answers with is resp.
FetchGiven == FetchRainfallWith({resp})

\* A create_time_series that kept the points of the series it replaces.
create_time_series_reusing(host, rain) ==
    [typ \in Metrics |->
        IF typ \in DOMAIN series_dict
        THEN [TimeSeries(typ, rain, host) EXCEPT
                 !.points = series_dict[typ].points]
        ELSE TimeSeries(typ, rain, host)]

\* A create_time_series that numbered its calls in the label.
create_time_series_counting(host, rain) ==
    [typ \in Metrics |-> TimeSeries(typ, rain + cycle, host)]

\* A create_time_series that kept the labels of the series it replaces.
create_time_series_stale(host, rain) ==
    [typ \in Metrics |->
        IF typ \in DOMAIN series_dict
        THEN [TimeSeries(typ, rain, host) EXCEPT
                 !.metric.labels = series_dict[typ].metric.labels]
        ELSE TimeSeries(typ, rain, host)]

\* A create_time_series that left out the last key of metric_dict.
create_time_series_partial(host, rain) ==
    [typ \in Metrics \ {metric_dict[Len(metric_dict)]} |->
        TimeSeries(typ, rain, host)]

\* The dict create_time_series returns: one TimeSeries per key of
\* metric_dict.
create_time_series(host, rain) ==
    [typ \in Metrics |-> TimeSeries(typ, rain, host)]

\* The for loop of create_time_series and the assignment of its result to
\* series_dict in main().  
BuildSeries ==
    /\ pc = "build"
    /\ series_dict' = create_time_series(ts_hostname, rainfall)
    /\ pc' = "read"
    /\ UNCHANGED <<error, envProject, envAppId, regIdx, descCalls, sensorAddr,
                   hostname, osHostname, ts_hostname, rainfall, data, mergeIdx,
                   clock, submitted, cycle, nHttp, nFetch, nRead, nPublish,
                   slept, last, sigAt, resp, metric_dict>>

----------------------------------------------------------------------------
(* RUNNING: the body of the while loop of main() after create_time_series  *)

IndexOf(seq, x) == CHOOSE i \in 1..Len(seq) : seq[i] = x

\* The dict data built from sensor.data for the r-th distinct reading:
\* every field holds a value of its own.
SensorData(r) ==
    [f \in Range(data_fields) |->
        r * Len(data_fields) + IndexOf(data_fields, f)]

\* An if statement whose body ends before the submission, so that the
\* batch is handed to the backend whatever the answer.
AfterReadPublishing(answer) == IF answer THEN "merge" ELSE "publish"

\* A loop that asked the sensor again, without sleeping, until it had data.
AfterReadRetrying(answer) == IF answer THEN "merge" ELSE "read"

\* Where the if statement on sensor.get_sensor_data() leads: into its
\* body when the answer is True, past it to time.sleep when it is False.
AfterRead(answer) == IF answer THEN "merge" ELSE "sleep"

\* A loop that swallowed the IOError of the sensor and went on to sleep.
ReadSwallowed(exc) ==
    /\ pc' = "sleep"
    /\ UNCHANGED error

\* What an IOError raised by sensor.get_sensor_data() does to the loop of
\* main(): nothing catches it.
ReadFailed(exc) == Raise(exc)

\* if sensor.get_sensor_data(): the driver answers False (no new data),
\* answers True with a reading, or raises IOError.
ReadSensor ==
    /\ pc = "read"
    /\ nRead' = nRead + 1
    /\ \/ /\ Called("get_sensor_data", "False")
          /\ pc' = AfterRead(FALSE)
          /\ UNCHANGED <<error, data, mergeIdx>>
       \/ \E r \in 1..MaxReading :
            /\ Called("get_sensor_data", "True")
            /\ data' = SensorData(r)
            /\ mergeIdx' = 1
            /\ pc' = AfterRead(TRUE)
            /\ UNCHANGED error
       \/ /\ Called("get_sensor_data", "IOError")
          /\ ReadFailed("IOError")
          /\ UNCHANGED <<data, mergeIdx>>
    /\ UNCHANGED <<envProject, envAppId, regIdx, descCalls, sensorAddr,
                   hostname, osHostname, ts_hostname, rainfall, series_dict,
                   clock, submitted, cycle, nHttp, nFetch, nPublish, slept,
                   sigAt, resp, metric_dict>>

\* int(now) and int((now - seconds) * 10**9) for the instant now, which is
\* a whole number of clock ticks.
Seconds(now) == now \div Resolution
Nanos(now) == ((now % Resolution) * 10^9) \div Resolution

\* point = series.points.add(); value and end_time.seconds are set, and the
\* sub-second part is assigned to the attribute nano.  Timestamp has no
\* field of that name (the field is nanos, which keeps its default 0).
NewPoint(value, now) ==
    [ value   |-> value,
      seconds |-> Seconds(now),
      nanos   |-> 0,
      nano    |-> Nanos(now) ]

\* The series a point is added to.
AddPoint(series, point) ==
    [series EXCEPT !.points = Append(@, point)]

\* A loop that passed over the items of data that have no series.
SubscriptSkipped ==
    /\ mergeIdx' = mergeIdx + 1
    /\ pc' = IF mergeIdx' > Len(data_fields) THEN "publish" ELSE "merge"
    /\ UNCHANGED <<series_dict, error>>

\* series_dict[typ] for a key series_dict does not hold: KeyError, which
\* nothing catches.
SubscriptFailed ==
    /\ Raise("KeyError")
    /\ UNCHANGED <<series_dict, mergeIdx>>

\* One iteration of for typ, value in data.items().  The assignment to
\* end_time.nano is accepted or raises AttributeError, as the message class
\* of the installed protobuf allows or refuses unknown attributes.
MergePoint ==
    /\ pc = "merge"
    /\ mergeIdx <= Len(data_fields)
    /\ LET typ == data_fields[mergeIdx]
           point == NewPoint(data[typ], clock)
       IN IF typ \notin DOMAIN series_dict
          THEN SubscriptFailed
          ELSE \E accepted \in BOOLEAN :
                 IF accepted
                 THEN /\ series_dict' =
                           [series_dict EXCEPT
                               ![typ] = AddPoint(@, point)]
                      /\ mergeIdx' = mergeIdx + 1
                      /\ pc' = IF mergeIdx' > Len(data_fields)
                               THEN "publish" ELSE "merge"
                      /\ UNCHANGED error
                 ELSE /\ series_dict' =
                           [series_dict EXCEPT
                               ![typ] = AddPoint(@, [point EXCEPT !.nano = 0])]
                      /\ Raise("AttributeError")
                      /\ UNCHANGED mergeIdx
    /\ UNCHANGED <<envProject, envAppId, regIdx, descCalls, sensorAddr,
                   hostname, osHostname, ts_hostname, rainfall, data, clock,
                   submitted, cycle, nHttp, nFetch, nRead, nPublish, slept,
                   last, sigAt, resp, metric_dict>>

\* list(series_dict.values()): the series in the insertion order of the
\* keys, which is the order of metric_dict.
Values(d) ==
    [i \in 1..Len(metric_dict) |-> d[metric_dict[i]]]

\* A loop that caught the failure of the submission and tried it again.
PublishRetried(exc) ==
    /\ pc' = "publish"
    /\ UNCHANGED error

\* What an exception raised by client.create_time_series does to the loop
\* of main(): nothing catches it.
PublishFailed(exc) == Raise(exc)

\* client.create_time_series(project_name, list(series_dict.values())),
\* after client.project_path(get_project_id()).
Publish ==
    /\ pc = "publish"
    /\ IF get_project_id # "ok"
       THEN /\ Called("get_project_id", get_project_id)
            /\ Raise(get_project_id)
            /\ UNCHANGED <<nPublish, submitted>>
       ELSE /\ nPublish' = nPublish + 1
            /\ submitted' = Values(series_dict)
            /\ \E accepted \in BOOLEAN :
                 IF accepted
                 THEN /\ Called("create_time_series", "ok")
                      /\ pc' = "sleep"
                      /\ UNCHANGED error
                 ELSE /\ Called("create_time_series",
                                "GoogleAPICallError")
                      /\ PublishFailed("GoogleAPICallError")
    /\ UNCHANGED <<envProject, envAppId, regIdx, descCalls, sensorAddr,
                   hostname, osHostname, ts_hostname, rainfall, series_dict,
                   data, mergeIdx, clock, cycle, nHttp, nFetch, nRead, slept,
                   sigAt, resp, metric_dict>>

\* time.sleep(POLL_INTERVAL), then the next iteration of while True.  The
\* list handed to the backend is no longer referenced.
Sleep ==
    /\ pc = "sleep"
    /\ slept' = slept + POLL_INTERVAL
    /\ Called("sleep", "ok")
    /\ submitted' = << >>
    /\ pc' = "fetch"
    /\ UNCHANGED <<error, envProject, envAppId, regIdx, descCalls, sensorAddr,
                   hostname, osHostname, ts_hostname, rainfall, series_dict,
                   data, mergeIdx, clock, cycle, nHttp, nFetch, nRead,
                   nPublish, sigAt, resp, metric_dict>>

----------------------------------------------------------------------------
(* SIGINT and the environment of the process                               *)

\* A try block that began only after the call of create_time_series.
InTryBlockLate(p) == p \in RunningPcs \ {"fetch", "build"}

\* A try block that enclosed the whole body of main().
InTryBlockWhole(p) == TRUE

\* Whether the statement main() is at lies inside try ... except
\* KeyboardInterrupt (lines 218-248).
InTryBlock(p) == p \in RunningPcs

\* SIGINT: Python raises KeyboardInterrupt in the main thread at the
\* statement being executed.  Inside the try block the handler passes and
\* main() returns; outside of it the exception leaves main().
Interrupt ==
    /\ pc # "stopped"
    /\ sigAt' = pc
    /\ pc' = "stopped"
    /\ error' = IF InTryBlock(pc) THEN "none" ELSE "KeyboardInterrupt"
    /\ UNCHANGED <<envProject, envAppId, regIdx, descCalls, sensorAddr,
                   hostname, osHostname, ts_hostname, rainfall, series_dict,
                   data, mergeIdx, clock, submitted, cycle, nHttp, nFetch,
                   nRead, nPublish, slept, last, resp, metric_dict>>

\* The host is renamed while the process runs.
HostRename ==
    /\ pc # "stopped"
    /\ osHostname = "raspi"
    /\ osHostname' = "renamed"
    /\ UNCHANGED <<pc, error, envProject, envAppId, regIdx, descCalls,
                   sensorAddr, hostname, ts_hostname, rainfall, series_dict,
                   data, mergeIdx, clock, submitted, cycle, nHttp, nFetch,
                   nRead, nPublish, slept, last, sigAt, resp, metric_dict>>

\* The wall clock advances between two readings of time.time().
Tick ==
    /\ pc = "merge"
    /\ clock < MaxClock
    /\ clock' = clock + 1
    /\ UNCHANGED <<pc, error, envProject, envAppId, regIdx, descCalls,
                   sensorAddr, hostname, osHostname, ts_hostname, rainfall,
                   series_dict, data, mergeIdx, submitted, cycle, nHttp,
                   nFetch, nRead, nPublish, slept, last, sigAt, resp,
                   metric_dict>>

----------------------------------------------------------------------------
Next ==
    \/ create_sensor_metrics
    \/ SensorPrimary
    \/ SensorSecondary
    \/ init_sensor
    \/ ResolveHostname
    \/ FetchRainfall
    \/ BuildSeries
    \/ ReadSensor
    \/ MergePoint
    \/ Publish
    \/ Sleep
    \/ Interrupt
    \/ HostRename
    \/ Tick

Spec == Init /\ [][Next]_vars

----------------------------------------------------------------------------
(* fetch_rainfall alone: the first cycle of a started program, up to the   *)
(* assignment of series_dict, for every body the provider may answer with. *)

InitFetch ==
    /\ pc = "fetch"
    /\ error = "none"
    /\ envProject = "set"
    /\ envAppId = "set"
    /\ metric_dict = MetricTypes
    /\ regIdx = Len(metric_dict) + 1
    /\ descCalls = [m \in Metrics |-> 1]
    /\ sensorAddr \in {"primary", "secondary"}
    /\ hostname = "raspi"
    /\ osHostname = "raspi"
    /\ ts_hostname = "none"
    /\ rainfall = "none"
    /\ resp \in FeatureLists
    /\ series_dict = << >>
    /\ data = "none"
    /\ mergeIdx = 1
    /\ clock = 0
    /\ submitted = << >>
    /\ cycle = 0
    /\ nHttp = 0
    /\ nFetch = 0
    /\ nRead = 0
    /\ nPublish = 0
    /\ last = [call |-> "gethostname", outcome |-> "ok"]
    /\ sigAt = "none"
    /\ slept = 0

NextFetch ==
    \/ FetchGiven
    \/ BuildSeries

SpecFetch == InitFetch /\ [][NextFetch]_vars

----------------------------------------------------------------------------
(* main() for every metric_dict: the dict of main() and the smaller dicts  *)
(* made of some of its keys, in the same order.                            *)

KeysIn(S) ==
    LET Kept(k) == k \in S
    IN SelectSeq(MetricTypes, Kept)

Catalogs ==
    {KeysIn(S) : S \in {T \in SUBSET Range(MetricTypes) :
                            \/ Cardinality(T) <= MaxCatalog
                            \/ T = Range(MetricTypes)}}

InitCatalog == \E keys \in Catalogs : InitWith(keys)

SpecCatalog == InitCatalog /\ [][Next]_vars

----------------------------------------------------------------------------
(* Properties                                                              *)

FetchErrored == last.call = "fetch_rainfall" /\ last.outcome \in FetchErrors

\* C1 as stated: a rainfall fetch that fails with a fetch error (network
\* failure, non-2xx answer, malformed JSON) does not end the loop; the
\* cycle goes on with the rainfall value -1.
C1_FetchErrorAbsorbed ==
    FetchErrored => error = "none" /\ rainfall = -1

\* C1 amended: a rainfall fetch that fails with a fetch error ends the
\* loop with that error surfaced; in that cycle no time series are built
\* (series_dict keeps no series of this cycle), the sensor is not read and
\* nothing is handed to the backend.
C1_FetchErrorStopsLoop ==
    FetchErrored =>
        /\ pc = "stopped"
        /\ error = last.outcome
        /\ nFetch = cycle
        /\ nRead = cycle - 1
        /\ submitted = << >>
        /\ cycle = 1 => series_dict = << >>
        /\ \A m \in DOMAIN series_dict :
              series_dict[m].points # << >> => nPublish > 0

\* A fetch error in the second cycle, after a first cycle that published.
C1_Witness ==
    FetchErrored /\ cycle = 2 /\ nPublish = 1 /\ pc = "stopped"

SampleAbsent == last.call = "get_sensor_data" /\ last.outcome = "False"

\* C2: in a cycle whose sensor read answers absent, the backend call is
\* not made, every series built in the cycle carries zero points, and the
\* loop goes to the sleep and from there to the next cycle.
C2_AbsentSkipsPublish ==
    [][ /\ SampleAbsent' =>
              /\ pc' \in {"sleep", "stopped"}
              /\ submitted' = << >>
              /\ nRead' = cycle'
              /\ DOMAIN series_dict' = Metrics
              /\ \A m \in Metrics : series_dict'[m].points = << >>
        /\ (SampleAbsent /\ pc' \notin {pc, "stopped"}) =>
              /\ nPublish' = nPublish
              /\ slept' = slept + POLL_INTERVAL
              /\ pc' = "fetch"
      ]_vars

\* An absent sample in the second cycle, after a cycle that published,
\* with the sleep of that second cycle done.
C2_Witness ==
    /\ cycle = 2 /\ nRead = 2 /\ nPublish = 1
    /\ slept = 2 * POLL_INTERVAL /\ pc = "fetch"
    /\ \A m \in Metrics : series_dict[m].points = << >>

\* C3: whenever a batch is handed to the backend, after any earlier
\* cycles, every series of the batch carries exactly one point.
C3_OnePointPerSeries ==
    submitted # << >> =>
        \A i \in DOMAIN submitted : Len(submitted[i].points) = 1

\* The batch of a second cycle that publishes after a first that did.
C3_Witness ==
    submitted # << >> /\ nPublish = 2 /\ cycle = 2

\* C4: the keys of the series mapping built in a cycle are exactly the keys
\* of metric_dict, each series under the key of its own metric, and the
\* batch handed to the backend holds exactly those series.
C4_KeysAreCatalog ==
    /\ pc \in {"read", "merge", "publish", "sleep"} =>
          /\ DOMAIN series_dict = Metrics
          /\ \A m \in Metrics :
                series_dict[m].metric.type = custom_metric(m)
    /\ submitted # << >> =>
          /\ Len(submitted) = Cardinality(Metrics)
          /\ {submitted[i] : i \in DOMAIN submitted}
                = {series_dict[m] : m \in Metrics}
          /\ {submitted[i].metric.type : i \in DOMAIN submitted}
                = {custom_metric(m) : m \in Metrics}

\* A batch was handed to the backend and accepted.
C4_Witness ==
    submitted # << >> /\ pc = "sleep" /\ DOMAIN series_dict = Metrics

SensorFault == last.call = "get_sensor_data" /\ last.outcome = "IOError"

\* C5: an I/O fault of the sensor read ends the loop with the error
\* surfaced; the read is not repeated and no backend call, rainfall fetch
\* or sensor read follows.
C5_SensorFaultStopsLoop ==
    [][ /\ SensorFault' =>
              /\ pc' = "stopped"
              /\ error' = "IOError"
              /\ submitted' = << >>
        /\ SensorFault =>
              UNCHANGED <<pc, error, nFetch, nHttp, nRead, nPublish>>
      ]_vars

\* A sensor fault in the second cycle.
C5_Witness ==
    SensorFault /\ cycle = 2 /\ nRead = 2 /\ nPublish = 1

PublishRejected ==
    last.call = "create_time_series" /\ last.outcome = "GoogleAPICallError"

\* C6: a failed submission ends the loop with the error surfaced; the
\* batch is not handed to the backend again and no later cycle runs.
C6_PublishFailureStopsLoop ==
    [][ /\ PublishRejected' =>
              /\ pc' = "stopped"
              /\ error' = "GoogleAPICallError"
        /\ PublishRejected =>
              UNCHANGED <<pc, error, cycle, nFetch, nRead, nPublish,
                          submitted>>
      ]_vars

\* A submission that fails in the second cycle.
C6_Witness ==
    PublishRejected /\ cycle = 2 /\ nPublish = 2 /\ pc = "stopped"

\* C7: SIGINT arriving anywhere in the loop (rainfall fetch, construction of
\* the series, sensor read, merge, submission, sleep) stops the loop with no
\* error surfaced, and once stopped no rainfall fetch, sensor read or
\* backend call is made.
C7_InterruptInLoopIsSilent ==
    [][ /\ sigAt' \in RunningPcs => pc' = "stopped" /\ error' = "none"
        /\ pc = "stopped" =>
              UNCHANGED <<pc, error, cycle, nFetch, nHttp, nRead, nPublish,
                          descCalls, submitted>>
      ]_vars

\* SIGINT arrived between the points of a merge.
C7_Witness ==
    sigAt = "merge" /\ mergeIdx = 3 /\ pc = "stopped" /\ error = "none"

\* C8 as stated: SIGINT in any state of the process, STARTING included,
\* ends the process with no error surfaced.
C8_InterruptAlwaysSilent ==
    sigAt # "none" => pc = "stopped" /\ error = "none"

\* C8 amended: SIGINT ends the process wherever it arrives; no error is
\* surfaced when it arrives in the loop, and KeyboardInterrupt is surfaced
\* when it arrives in STARTING (registration of the descriptors, start-up
\* of the sensor, resolution of the hostname).
C8_InterruptSilentOnlyInLoop ==
    sigAt # "none" =>
        /\ pc = "stopped"
        /\ sigAt \in RunningPcs => error = "none"
        /\ sigAt \in StartingPcs => error = "KeyboardInterrupt"

\* SIGINT arrived while the third descriptor was being registered.
C8_Witness ==
    sigAt = "register" /\ regIdx = 3 /\ error = "KeyboardInterrupt"

AllRegisteredOnce == \A m \in Metrics : descCalls[m] = 1

\* C9: create_metric_descriptor is called exactly once per key of
\* metric_dict, all of these calls are done before the first rainfall
\* fetch, sensor read or submission, and none is made in the loop.
C9_RegisteredOnceBeforeLoop ==
    /\ \A m \in Metrics : descCalls[m] <= 1
    /\ (pc \in (StartingPcs \ {"register"}) \cup RunningPcs) =>
          AllRegisteredOnce
    /\ (cycle > 0 \/ nFetch > 0 \/ nRead > 0 \/ nPublish > 0) =>
          AllRegisteredOnce

\* The loop ran two cycles and published in both.
C9_Witness ==
    pc = "sleep" /\ cycle = 2 /\ nPublish = 2 /\ AllRegisteredOnce

DescriptorRejected ==
    /\ last.call = "create_metric_descriptor"
    /\ last.outcome = "GoogleAPICallError"

\* C10: when the backend rejects the descriptor of the k-th key, startup
\* ends there: the descriptors before it were created once, the rejected
\* call was made once, none is made for a later key, and the loop is never
\* entered (no rainfall fetch, sensor read or submission).
C10_RejectionAbortsStartup ==
    DescriptorRejected =>
        /\ pc = "stopped"
        /\ error = "GoogleAPICallError"
        /\ \A i \in 1..Len(metric_dict) :
              descCalls[metric_dict[i]] = IF i <= regIdx THEN 1 ELSE 0
        /\ sensorAddr = "none"
        /\ cycle = 0 /\ nFetch = 0 /\ nHttp = 0
        /\ nRead = 0 /\ nPublish = 0

\* The descriptor of the third key was rejected.
C10_Witness ==
    DescriptorRejected /\ regIdx = 3 /\ descCalls[metric_dict[3]] = 1

StartingCalls ==
    {"get_project_id", "create_metric_descriptor", "BME680", "init_sensor",
     "gethostname"}

StartingStepFailed ==
    cycle = 0 /\ last.call \in StartingCalls /\ last.outcome # "ok"

\* C11 as stated: a failure of any step of STARTING ends the process with
\* the error surfaced, with no other attempt of the failed step.
C11_StartFailureAlwaysStops ==
    StartingStepFailed => pc = "stopped" /\ error = last.outcome

\* C11 amended: a failure of a step of STARTING ends the process with the
\* error surfaced and the loop is never entered, except an IOError of the
\* sensor constructor at the primary address, after which the constructor
\* is tried once at the secondary address; a failure there ends the process.
C11_StartFailureStopsButPrimary ==
    StartingStepFailed =>
        \/ /\ pc = "stopped"
           /\ error \in {last.outcome, "KeyboardInterrupt"}
           /\ nFetch = 0 /\ nRead = 0 /\ nPublish = 0
        \/ /\ last.call = "BME680"
           /\ pc = "sensor_secondary"
           /\ sensorAddr = "none"
           /\ error = "none"

\* The constructor failed at the primary address and succeeded at the
\* secondary one, and init_sensor then failed.
C11_Witness ==
    /\ StartingStepFailed
    /\ last.call = "init_sensor"
    /\ sensorAddr = "secondary"
    /\ pc = "stopped" /\ error = "IOError"

----------------------------------------------------------------------------
\* A rainfall fetch attempted while YAHOO_APP_ID is unset or empty.
FetchWithoutAppId ==
    /\ last.call = "fetch_rainfall"
    /\ envAppId \in {"unset", "empty"}

\* C12: when YAHOO_APP_ID is unset or empty, every rainfall fetch attempt
\* fails with MissingAppIdError and issues no HTTP request to the weather
\* provider.
C12_NoAppIdIsMissingAppIdError ==
    FetchWithoutAppId =>
        /\ last.outcome = "MissingAppIdError"
        /\ nHttp = 0

----------------------------------------------------------------------------
\* A resolution of the project id attempted while GOOGLE_CLOUD_PROJECT is
\* missing or empty.
ResolveWithoutProject ==
    /\ last.call = "get_project_id"
    /\ envProject \in {"unset", "empty"}

\* C13: when GOOGLE_CLOUD_PROJECT is missing or empty, the resolution of the
\* project id fails with MissingProjectIdError before any backend call, and
\* the process stops with that error surfaced.
C13_NoProjectIsMissingProjectIdError ==
    ResolveWithoutProject =>
        /\ last.outcome = "MissingProjectIdError"
        /\ \A m \in Metrics : descCalls[m] = 0
        /\ nPublish = 0
        /\ pc = "stopped"
        /\ error = "MissingProjectIdError"

----------------------------------------------------------------------------
\* The positions of the entries of type "observation" in a weather list.
Observations(weathers) ==
    {i \in 1..Len(weathers) : weathers[i].Type = "observation"}

\* The whole millimetres of the first observation of the first Feature of
\* body, -1 when that Feature has none.
FirstObservation(body) ==
    LET weathers == body[1]
        obs == Observations(weathers)
        first == CHOOSE i \in obs : \A j \in obs : i <= j
    IN IF obs = {} THEN -1
       ELSE CHOOSE n \in 0..MaxRain :
                /\ n * RainScale <= weathers[first].Rainfall
                /\ weathers[first].Rainfall < (n + 1) * RainScale

\* C14: for every well-formed body, fetch_rainfall consults the first
\* Feature only and returns the integer rainfall of its first entry of type
\* "observation", or -1, without raising, when it has none; the cycle goes
\* on with that value.
C14_FirstObservationOrSentinel ==
    (last = [call |-> "fetch_rainfall", outcome |-> "ok"]) =>
        /\ pc \in {"build", "read"}
        /\ error = "none"
        /\ rainfall = FirstObservation(resp)
        /\ pc = "read" =>
               \A typ \in Metrics :
                   series_dict[typ].metric.labels.rainfall = str(rainfall)

C14_Witness ==
    /\ pc = "read"
    /\ last = [call |-> "fetch_rainfall", outcome |-> "ok"]
    /\ Len(resp) = 2
    /\ Observations(resp[1]) = {}
    /\ Len(resp[1]) > 0
    /\ Observations(resp[2]) # {}
    /\ rainfall = -1
    /\ series_dict["temperature"].metric.labels.rainfall = <<"-", "1">>

----------------------------------------------------------------------------
\* The batch handed to client.create_time_series holds one series per key
\* of metric_dict, whose only point carries the value data has for the key.
BatchCarriesSample ==
    /\ Len(submitted) = Len(metric_dict)
    /\ \A i \in 1..Len(submitted) :
         /\ submitted[i].metric.type = custom_metric(metric_dict[i])
         /\ Len(submitted[i].points) = 1
         /\ submitted[i].points[1].value = data[metric_dict[i]]

\* Some key of data has no entry in metric_dict.
ExtraFields == ~(Range(data_fields) \subseteq Metrics)

\* The last call was a read of the sensor that gave a sample.
SamplePresent == last = [call |-> "get_sensor_data", outcome |-> "True"]

\* The merge of a sample stopped main() with KeyError.
MergeKeyError == error = "KeyError" /\ SamplePresent

----------------------------------------------------------------------------
\* C16: every series built in a cycle carries, as its label rainfall, the
\* string of the value fetch_rainfall returned in that same cycle, the
\* sentinel -1 included: the series of a batch share one label, and no
\* value of an earlier cycle is carried into a later batch.
C16_LabelIsThisCyclesRainfall ==
    /\ pc \in {"read", "merge", "publish", "sleep"} =>
           \A typ \in DOMAIN series_dict :
               series_dict[typ].metric.labels.rainfall = str(rainfall)
    /\ \A i \in 1..Len(submitted) :
           submitted[i].metric.labels.rainfall = str(rainfall)

C16_Witness ==
    /\ cycle = 2
    /\ pc = "sleep"
    /\ rainfall = -1
    /\ Len(submitted) = Len(metric_dict)
    /\ \A i \in 1..Len(submitted) :
           submitted[i].metric.labels.rainfall = <<"-", "1">>

----------------------------------------------------------------------------
\* A step that enters, and one that leaves, a call of create_time_series.
HeadOfBuild == pc = "fetch" /\ pc' = "build"
LoopOfBuild == pc = "build" /\ pc' = "read"

\* The mapping the arguments of a call determine: one series without
\* points for each key of catalog.
Envelopes(catalog, rain, host) ==
    [typ \in catalog |->
        [ metric   |-> [type |-> custom_metric(typ),
                        labels |-> [rainfall |-> str(rain)]],
          resource |-> [type |-> RESOURCE_TYPE,
                        labels |-> [location  |-> RESOURCE_LOCATION,
                                    namespace |-> RESOURCE_NAMESPACE,
                                    node_id   |-> host]],
          points   |-> << >> ]]

\* What a call of create_time_series may not touch if it interacts with
\* nothing.
Outside ==
    <<error, envProject, envAppId, regIdx, descCalls, sensorAddr, hostname,
      metric_dict, osHostname, data, mergeIdx, clock, submitted, nHttp,
      nRead, nPublish, slept, sigAt>>

\* C17: create_time_series is a pure, deterministic construction: the
\* mapping it returns is determined by its inputs (the keys, the rainfall,
\* the hostname of main()), has no points, and the call issues no weather
\* request, makes no backend call and changes nothing else.
C17_BuildIsPure ==
    [][ /\ HeadOfBuild => UNCHANGED Outside
        /\ LoopOfBuild =>
               /\ series_dict' = Envelopes(Metrics, rainfall, hostname)
               /\ UNCHANGED Outside ]_vars

\* C17, amended: the call itself resolves the hostname and fetches the
\* rainfall, with one weather request; the mapping it then returns is
\* determined by the keys, that rainfall and that hostname, has no points,
\* and the call makes no backend call and changes nothing else of main().
C17_BuildAfterFetchIsDetermined ==
    [][ /\ HeadOfBuild =>
               /\ nHttp' = nHttp + 1
               /\ nFetch' = nFetch + 1
               /\ ts_hostname' = osHostname
               /\ rainfall' \in -1..MaxRain
               /\ UNCHANGED <<error, envProject, envAppId, regIdx,
                              descCalls, sensorAddr, hostname, metric_dict,
                              osHostname, series_dict, data, mergeIdx,
                              clock, submitted, nRead, nPublish, slept,
                              sigAt>>
        /\ LoopOfBuild =>
               /\ series_dict' = Envelopes(Metrics, rainfall, ts_hostname)
               /\ \A typ \in Metrics : series_dict'[typ].points = << >>
               /\ UNCHANGED Outside
               /\ UNCHANGED <<rainfall, ts_hostname, nFetch, cycle>> ]_vars

C17_Witness ==
    /\ pc = "read"
    /\ cycle = 2
    /\ nHttp = 2
    /\ ts_hostname = "renamed"
    /\ hostname = "raspi"
    /\ rainfall = 1
    /\ series_dict = Envelopes(Metrics, 1, "renamed")

----------------------------------------------------------------------------
\* The instant now, a whole number of clock ticks, in nanoseconds.
Nanoseconds(now) == (now * 10^9) \div Resolution

\* C18: whenever a sample is merged, the timestamp of each appended point
\* has 0 <= nanos <= 999,999,999, and seconds * 10^9 + nanos is the
\* wall-clock time read for the point, truncated to nanoseconds.
C18_TimestampIsWallClock ==
    [][ pc = "merge" =>
          \A typ \in DOMAIN series_dict :
              Len(series_dict'[typ].points) > Len(series_dict[typ].points) =>
                  LET point == series_dict'[typ].points[
                                   Len(series_dict'[typ].points)]
                  IN /\ 0 <= point.nanos
                     /\ point.nanos <= 999999999
                     /\ point.seconds * 10^9 + point.nanos
                            = Nanoseconds(clock) ]_vars

----------------------------------------------------------------------------
\* The order of the steps of one iteration of the loop.
CycleOrder ==
    { <<"fetch", "build">>, <<"build", "read">>, <<"read", "merge">>,
      <<"read", "sleep">>, <<"merge", "publish">>, <<"publish", "sleep">>,
      <<"sleep", "fetch">> }

\* Iterations completed, and iterations whose read is done.
Completed == IF pc = "fetch" THEN cycle ELSE cycle - 1
ReadDone == IF pc \in {"build", "read"} THEN cycle - 1 ELSE cycle

\* While the loop runs, every started iteration has made one fetch, every
\* iteration past its read one read, every completed iteration one sleep
\* of POLL_INTERVAL, and no iteration more than one submission.
CycleCounts ==
    pc \in RunningPcs =>
        /\ nFetch = cycle
        /\ nRead = ReadDone
        /\ slept = POLL_INTERVAL * Completed
        /\ nPublish <= (IF pc = "sleep" THEN cycle ELSE Completed)

\* C19: each iteration of the loop goes through fetch, build, read, merge
\* and publish (only with a sample), sleep, in that order; a completed
\* iteration has made exactly one fetch, one read, one sleep of the fixed
\* interval and at most one submission, and the fetch is made also when the
\* sample turns out absent.
C19_FixedOrderOncePerCycle ==
    [][ /\ CycleCounts
        /\ CycleCounts'
        /\ (pc \in RunningPcs /\ pc' \notin {pc, "stopped"}) =>
               <<pc, pc'>> \in CycleOrder
        /\ (pc = "read" /\ pc' = "merge") => nPublish' = nPublish
        /\ (pc = "read" /\ pc' = "sleep") =>
               /\ last'.outcome = "False"
               /\ nFetch' = cycle
               /\ nPublish' = nPublish
        /\ (pc = "publish" /\ pc' = "sleep") => nPublish' = nPublish + 1
        /\ pc = "merge" => nPublish' = nPublish ]_vars

C19_Witness ==
    /\ pc = "fetch"
    /\ cycle = 2
    /\ nFetch = 2
    /\ nHttp = 2
    /\ nRead = 2
    /\ nPublish = 1
    /\ slept = 2 * POLL_INTERVAL
    /\ last = [call |-> "sleep", outcome |-> "ok"]

----------------------------------------------------------------------------
\* C20: the resource identity is read-only after startup: every series of
\* every iteration carries as node_id the hostname main() resolved before
\* the loop, even if the host is renamed while the loop runs, and the same
\* constant location and namespace.
C20_NodeIdIsStartupHostname ==
    pc \in {"read", "merge", "publish", "sleep"} =>
        \A typ \in DOMAIN series_dict :
            /\ series_dict[typ].resource.labels.node_id = hostname
            /\ series_dict[typ].resource.labels.location = RESOURCE_LOCATION
            /\ series_dict[typ].resource.labels.namespace
                   = RESOURCE_NAMESPACE

====
